---- MODULE Spec2Model ----
(***************************************************************************)
(* Model of the prompt synchronisation engine of the Promptrun SDK:       *)
(* PromptrunPollingPromptImpl (timer-driven poll session) and             *)
(* PromptrunSSEPromptImpl (push session over an EventSource), together    *)
(* with the part of PollingEventEmitter the sessions use.  A behaviour    *)
(* follows one session object; the fields the two classes have in common  *)
(* (currentPrompt, lastError, onChangeCallback, eventEmitter) share their *)
(* variable, the fields of the other class keep their initial value.      *)
(*                                                                         *)
(* The event loop is part of the state: pendingTimers counts the armed    *)
(* timeouts, inFlight the fetches whose promise has not settled yet.      *)
(* A timer callback is two steps, split at its only await: TimerFires     *)
(* (up to `await this.fetchPrompt()`) and FetchSettles (the rest of the   *)
(* callback, run to completion).                                          *)
(***************************************************************************)
EXTENDS Integers, Sequences, FiniteSets, TLC

VARIABLES
    currentPrompt,      \* this.currentPrompt
    pollingInterval,    \* this.pollingInterval: "null", or a timer handle that is "pending" or "spent"
    pollIntervalMs,     \* this.pollIntervalMs
    backoffMultiplier,  \* this.backoffMultiplier, an exact rational <<num, den>>
    consecutiveErrors,  \* this.consecutiveErrors
    errorHandler,       \* this.errorHandler: TRUE when a handler is installed; for a push
                        \* session, which has no such field: onError() has installed one
    lastError,          \* this.lastError
    onChangeCallback,   \* this.onChangeCallback: TRUE when one was given
    listeners,          \* this.eventEmitter.listeners: event -> handlers in insertion order
    pendingTimers,      \* event loop: number of armed timeouts
    timerDelay,         \* event loop: delay the most recent setTimeout was called with
    inFlight,           \* event loop: number of fetches not settled yet
    serverPrompts,      \* environment: the prompt records the server may answer with
    stopCalled,         \* history: stopPolling() has been called
    onlyRateLimits,     \* history: every error since the last success (or the start) was a rate_limit
    priorStatus,        \* history: the error streak as it was before the last step, if a fetch settled in it
    calls,              \* history: emits, handler invocations and console output of the last step
    thrown,             \* the exception that left the constructor, Null when it returned normally
    args,               \* history: the arguments the constructor was called with
    eventSource,        \* this.eventSource (push session): "null" or the readyState of the connection
    orphans,            \* event loop: readyStates of the open connections this.eventSource no longer refers to
    isConnected,        \* this.isConnected (push session)
    options             \* history: the options prompt() was called with, Null for a session constructed directly

vars == <<currentPrompt, pollingInterval, pollIntervalMs, backoffMultiplier,
          consecutiveErrors, errorHandler, lastError, onChangeCallback,
          listeners, pendingTimers, timerDelay, inFlight, serverPrompts,
          stopCalled, onlyRateLimits, priorStatus, calls,
          thrown, args, eventSource, orphans, isConnected, options>>

\* the fields and the connections of a push session
sseVars == <<eventSource, orphans, isConnected>>

\* the fields and the event-loop entries of a poll session only
pollVars == <<pollingInterval, pollIntervalMs, backoffMultiplier, consecutiveErrors,
              errorHandler, inFlight, onlyRateLimits>>

----------------------------------------------------------------------------
(* Bounds *)

NumValues == 2                \* distinct values of each prompt field
MaxConsecutiveErrors == 5     \* longest error streak explored
MaxInFlight == 2              \* cap on simultaneously outstanding fetches / timers
MaxReconnectTimers == 2       \* cap on simultaneously pending reconnect timers of a push session
MaxOrphans == 1               \* cap on open connections the push session has lost its reference to
MaxListeners == 2             \* cap on the registrations a standalone emitter holds at a time

(* Program constants *)

maxBackoffMs == 300000
minPollIntervalMs == 5000
MaxRateLimitBackoff == 16
MaxErrorBackoff == 4
ErrorBackoffThreshold == 3
reconnectDelayMs == 5000

----------------------------------------------------------------------------
(* Exact arithmetic on the non-negative rationals the multiplier and the   *)
(* delays range over (every value is a dyadic rational, so the double      *)
(* arithmetic of the program is exact on them).                            *)

RECURSIVE GCD(_, _)
GCD(a, b) == IF b = 0 THEN a ELSE GCD(b, a % b)

Rat(n, d) == LET g == GCD(n, d) IN <<n \div g, d \div g>>

RatInt(n) == <<n, 1>>

RatMul(x, y) == Rat(x[1] * y[1], x[2] * y[2])

RatLeq(x, y) == x[1] * y[2] <= y[1] * x[2]

MathMin(x, y) == IF RatLeq(x, y) THEN x ELSE y

One == RatInt(1)
Two == RatInt(2)
OneAndHalf == <<3, 2>>

----------------------------------------------------------------------------
(* Prompt records (PromptrunPrompt), reduced to the five compared fields   *)
(* and two fields that are not compared.                                   *)

PromptFields == {"id", "version", "prompt", "temperature", "tag", "updatedAt", "model"}

Values == 1..NumValues

Prompts == [PromptFields -> Values]

BasePrompt == [f \in PromptFields |-> 1]

FieldDistance(p, q) == Cardinality({f \in PromptFields : p[f] # q[f]})

\* records at most one field away from the base record
NearPrompts == {p \in Prompts : FieldDistance(p, BasePrompt) <= 1}

\* a small universe: the base record, a new version of it, a copy with another id
FewPrompts == {BasePrompt,
               [BasePrompt EXCEPT !["version"] = 2],
               [BasePrompt EXCEPT !["id"] = 2]}

\* the name under which a prompt field appears in the `changes` of a change event
ChangeKeys == {"version", "content", "temperature", "tag", "updatedAt"}

FieldOf(key) == IF key = "content" THEN "prompt" ELSE key

\* `undefined`, as the value of an optional field
Undefined == "undefined"

\* this.lastError when no error is recorded
NoError == [type |-> Undefined, statusCode |-> Undefined, cause |-> Undefined,
            consecutiveErrors |-> 0, backoffMultiplier |-> <<1, 1>>]

\* `null` or `undefined` where a record is expected
Null == <<>>

Events == {"change", "error"}

HandlerIds == {"h1"}

\* what a user-supplied handler may do when invoked
Behaviours == {"return", "throw", "stopPolling"}

\* the (pollIntervalMs, enforceMinimumInterval) pairs sessions are constructed with: an
\* interval below the minimum with and without enforcement, the minimum itself, and an
\* interval above maxBackoffMs
Intervals == {<<1000, TRUE>>, <<1000, FALSE>>, <<5000, TRUE>>, <<600000, FALSE>>}

----------------------------------------------------------------------------
(* The session as a record, so that the statements of a callback can be    *)
(* applied one after the other.                                            *)

Self == [currentPrompt     |-> currentPrompt,
         pollingInterval   |-> pollingInterval,
         backoffMultiplier |-> backoffMultiplier,
         consecutiveErrors |-> consecutiveErrors,
         lastError         |-> lastError,
         pendingTimers     |-> pendingTimers,
         timerDelay        |-> timerDelay,
         stopCalled        |-> stopCalled,
         calls             |-> <<>>]

Commit(s) ==
    /\ currentPrompt' = s.currentPrompt
    /\ pollingInterval' = s.pollingInterval
    /\ backoffMultiplier' = s.backoffMultiplier
    /\ consecutiveErrors' = s.consecutiveErrors
    /\ lastError' = s.lastError
    /\ pendingTimers' = s.pendingTimers
    /\ timerDelay' = s.timerDelay
    /\ stopCalled' = s.stopCalled
    /\ calls' = s.calls

Log(s, entry) == [s EXCEPT !.calls = Append(@, entry)]

\* clearTimeout(handle): disarms the timeout when it is still pending
ClearTimeout(s) ==
    IF s.pollingInterval = "pending"
    THEN [s EXCEPT !.pendingTimers = @ - 1, !.pollingInterval = "spent"]
    ELSE s

\* get isPolling()
isPolling(s) == s.pollingInterval # "null"

\* stopPolling() as a switch: it starts the polling of a session that is not polling
stopPollingToggling(s) ==
    IF s.pollingInterval # "null"
    THEN [ClearTimeout(s) EXCEPT !.pollingInterval = "null"]
    ELSE [s EXCEPT !.pollingInterval = "pending", !.pendingTimers = @ + 1]

\* stopPolling()
stopPolling(s) ==
    IF s.pollingInterval # "null"
    THEN [ClearTimeout(s) EXCEPT !.pollingInterval = "null"]
    ELSE s

\* PromptrunSSEPromptImpl.stopPolling(): close() ends the connection, which is dropped
sseStopPolling(s) ==
    IF s.eventSource # "null"
    THEN [s EXCEPT !.eventSource = "null", !.isConnected = FALSE]
    ELSE s

\* a call of stopPolling() by the application or by one of its handlers, on the
\* session object it holds: a push session or a poll session
CallStopPolling(s) ==
    [(IF "eventSource" \in DOMAIN s THEN sseStopPolling(s) ELSE stopPolling(s))
        EXCEPT !.stopCalled = TRUE]

\* the delay without the cap of maxBackoffMs
actualIntervalUncapped(s) ==
    RatMul(RatInt(pollIntervalMs), s.backoffMultiplier)

\* the delay scheduleNextPoll passes to setTimeout, capped at the minimum interval
actualIntervalCappedAtMinimum(s) ==
    LET currentInterval == RatMul(RatInt(pollIntervalMs), s.backoffMultiplier)
    IN MathMin(currentInterval, RatInt(minPollIntervalMs))


\* the delay scheduleNextPoll passes to setTimeout
actualInterval(s) ==
    LET currentInterval == RatMul(RatInt(pollIntervalMs), s.backoffMultiplier)
    IN MathMin(currentInterval, RatInt(maxBackoffMs))

\* scheduleNextPoll(), up to and including the setTimeout call
scheduleNextPoll(s) ==
    LET cleared == IF s.pollingInterval # "null" THEN ClearTimeout(s) ELSE s
    IN [cleared EXCEPT !.pollingInterval = "pending",
                       !.pendingTimers = @ + 1,
                       !.timerDelay = actualInterval(s)]

\* getStatus()
getStatus(s) ==
    [isPolling         |-> isPolling(s),
     currentInterval   |-> RatMul(RatInt(pollIntervalMs), s.backoffMultiplier),
     consecutiveErrors |-> s.consecutiveErrors,
     backoffMultiplier |-> s.backoffMultiplier,
     lastError         |-> s.lastError]

\* getCurrent(): a copy of the held record
getCurrent(s) == [f \in PromptFields |-> s.currentPrompt[f]]

----------------------------------------------------------------------------
(* Change detection *)

\* detectChanges without the comparison of the tag
detectChangesWithoutTag(current, updated) ==
    \/ current["version"] # updated["version"]
    \/ current["prompt"] # updated["prompt"]
    \/ current["temperature"] # updated["temperature"]
    \/ current["updatedAt"] # updated["updatedAt"]

\* detectChanges without the comparison of updatedAt
detectChangesWithoutUpdatedAt(current, updated) ==
    \/ current["version"] # updated["version"]
    \/ current["prompt"] # updated["prompt"]
    \/ current["temperature"] # updated["temperature"]
    \/ current["tag"] # updated["tag"]

detectChanges(current, updated) ==
    \/ current["version"] # updated["version"]
    \/ current["prompt"] # updated["prompt"]
    \/ current["temperature"] # updated["temperature"]
    \/ current["tag"] # updated["tag"]
    \/ current["updatedAt"] # updated["updatedAt"]

\* createChangeEvent with `from` and `to` taken from the wrong records
createChangeEventSwapped(previous, current) ==
    [prompt         |-> current,
     previousPrompt |-> previous,
     changes        |-> [k \in {c \in ChangeKeys : previous[FieldOf(c)] # current[FieldOf(c)]} |->
                            [from |-> current[FieldOf(k)], to |-> previous[FieldOf(k)]]]]

createChangeEvent(previous, current) ==
    [prompt         |-> current,
     previousPrompt |-> previous,
     changes        |-> [k \in {c \in ChangeKeys : previous[FieldOf(c)] # current[FieldOf(c)]} |->
                            [from |-> previous[FieldOf(k)], to |-> current[FieldOf(k)]]]]

----------------------------------------------------------------------------
(* PollingEventEmitter, as the session uses it.  A registered handler is   *)
(* user code: what it does when invoked is an input of the step (behs).    *)

Call(op, event, arg, outcome) == [op |-> op, event |-> event, arg |-> arg, outcome |-> outcome]

\* the error counters getStatus() of the session reports: the fields of a poll session,
\* the constants of a push session
Counters(s) ==
    IF "consecutiveErrors" \in DOMAIN s
    THEN [consecutiveErrors |-> s.consecutiveErrors, backoffMultiplier |-> s.backoffMultiplier]
    ELSE [consecutiveErrors |-> 0, backoffMultiplier |-> One]

\* the call of a handler on session s, with what getStatus() and getCurrent() report
\* while it runs
Delivery(s, op, event, arg, outcome) ==
    [op |-> op, event |-> event, arg |-> arg, outcome |-> outcome, status |-> Counters(s),
     current |-> s.currentPrompt]

\* on(event, handler): Set.add keeps the first insertion of a handler
on(ls, event, handler) ==
    IF \E i \in 1..Len(ls[event]) : ls[event][i] = handler
    THEN ls
    ELSE [ls EXCEPT ![event] = Append(@, handler)]

\* off(event, handler) deleting the handler from the Sets of all events
offEverywhere(ls, event, handler) ==
    [ev \in Events |-> SelectSeq(ls[ev], LAMBDA h : h # handler)]

\* off(event, handler): Set.delete
off(ls, event, handler) ==
    [ls EXCEPT ![event] = SelectSeq(@, LAMBDA h : h # handler)]

\* off(event): Set.clear
offAll(ls, event) == [ls EXCEPT ![event] = <<>>]

\* the body of handlers.forEach in emit: call the handler, catch and log what it throws
RECURSIVE forEachHandler(_, _, _, _, _)
forEachHandler(s, event, arg, handlers, behs) ==
    IF handlers = <<>>
    THEN s
    ELSE LET b == behs[Head(handlers)]
             called == Log(s, Delivery(s, "listener", event, arg, b))
             ran == IF b = "stopPolling" THEN CallStopPolling(called) ELSE called
             caught == IF b = "throw"
                       THEN Log(ran, Call("console.error", event, arg, "return"))
                       ELSE ran
         IN forEachHandler(caught, event, arg, Tail(handlers), behs)

\* handler h is registered for some event
Registered(h) == \E e \in Events : \E i \in 1..Len(listeners[e]) : listeners[e][i] = h

\* emit(event, arg)
emit(s, event, arg, behs) ==
    forEachHandler(Log(s, Call("emit", event, arg, "return")), event, arg, listeners[event], behs)

----------------------------------------------------------------------------
(* Errors *)

\* the classes an error of class c is an instance of
Ancestors(c) ==
    CASE c = "PromptrunAuthenticationError" ->
            {"PromptrunAuthenticationError", "PromptrunAPIError", "PromptrunError", "Error"}
      [] c = "PromptrunAPIError" -> {"PromptrunAPIError", "PromptrunError", "Error"}
      [] c = "PromptrunConnectionError" -> {"PromptrunConnectionError", "PromptrunError", "Error"}
      [] c = "TypeError" -> {"TypeError", "Error"}
      [] OTHER -> {c}

instanceof(error, c) == c \in Ancestors(error.class)

Thrown(class, status) == [class |-> class, status |-> status]

\* what the transport can do with one request
FetchOutcomes ==
    {[kind |-> "rejected", status |-> Undefined, body |-> Null]}
    \cup {[kind |-> "response", status |-> st, body |-> Null] : st \in {"401", "404", "429", "500"}}
    \cup {[kind |-> "response", status |-> "200", body |-> b] : b \in serverPrompts \cup {Null}}

\* fetchPrompt(): [ok |-> TRUE, value] when it resolves, [ok |-> FALSE, error] when it throws
fetchPrompt(outcome) ==
    IF outcome.kind = "rejected"
    THEN [ok |-> FALSE, value |-> Null,
          error |-> Thrown("PromptrunConnectionError", Undefined)]
    ELSE IF outcome.status # "200"
    THEN IF outcome.status = "401"
         THEN [ok |-> FALSE, value |-> Null,
               error |-> Thrown("PromptrunAuthenticationError", Undefined)]
         ELSE [ok |-> FALSE, value |-> Null,
               error |-> Thrown("PromptrunAPIError", outcome.status)]
    ELSE [ok |-> TRUE, value |-> outcome.body, error |-> Null]

\* createPollingError without the branch for status 429
createPollingErrorNoRateLimit(s, error) ==
    LET type == IF instanceof(error, "PromptrunAPIError")
                THEN IF error.status = "401" THEN "authentication" ELSE "api"
                ELSE IF instanceof(error, "PromptrunAuthenticationError") THEN "authentication"
                ELSE IF instanceof(error, "PromptrunConnectionError") THEN "network"
                ELSE "unknown"
        statusCode == IF instanceof(error, "PromptrunAPIError") THEN error.status ELSE Undefined
    IN [type |-> type,
        statusCode |-> statusCode,
        cause |-> error.class,
        consecutiveErrors |-> s.consecutiveErrors,
        backoffMultiplier |-> s.backoffMultiplier]

createPollingError(s, error) ==
    LET type == IF instanceof(error, "PromptrunAPIError")
                THEN IF error.status = "429" THEN "rate_limit"
                     ELSE IF error.status = "401" THEN "authentication"
                     ELSE "api"
                ELSE IF instanceof(error, "PromptrunAuthenticationError") THEN "authentication"
                ELSE IF instanceof(error, "PromptrunConnectionError") THEN "network"
                ELSE "unknown"
        statusCode == IF instanceof(error, "PromptrunAPIError") THEN error.status ELSE Undefined
    IN [type |-> type,
        statusCode |-> statusCode,
        cause |-> error.class,
        consecutiveErrors |-> s.consecutiveErrors,
        backoffMultiplier |-> s.backoffMultiplier]

logDefaultError(s, pollingError) ==
    IF pollingError.type = "rate_limit"
    THEN Log(s, Call("console.warn", "rate_limit", pollingError, "return"))
    ELSE IF s.consecutiveErrors >= ErrorBackoffThreshold
    THEN Log(s, Call("console.warn", "multiple", pollingError, "return"))
    ELSE Log(s, Call("console.warn", "single", pollingError, "return"))

\* the backoff update without a cap on the doubling
nextBackoffMultiplierUncapped(s, pollingError) ==
    IF pollingError.type = "rate_limit"
    THEN RatMul(s.backoffMultiplier, Two)
    ELSE IF s.consecutiveErrors >= ErrorBackoffThreshold
    THEN MathMin(RatMul(s.backoffMultiplier, OneAndHalf), RatInt(MaxErrorBackoff))
    ELSE s.backoffMultiplier

\* the backoff update with one cap for every category
nextBackoffMultiplierOneCap(s, pollingError) ==
    IF pollingError.type = "rate_limit"
    THEN MathMin(RatMul(s.backoffMultiplier, Two), RatInt(MaxErrorBackoff))
    ELSE IF s.consecutiveErrors >= ErrorBackoffThreshold
    THEN MathMin(RatMul(s.backoffMultiplier, OneAndHalf), RatInt(MaxErrorBackoff))
    ELSE s.backoffMultiplier

\* the backoff update that starts one error late
nextBackoffMultiplierLate(s, pollingError) ==
    IF pollingError.type = "rate_limit"
    THEN MathMin(RatMul(s.backoffMultiplier, Two), RatInt(MaxRateLimitBackoff))
    ELSE IF s.consecutiveErrors > ErrorBackoffThreshold
    THEN MathMin(RatMul(s.backoffMultiplier, OneAndHalf), RatInt(MaxErrorBackoff))
    ELSE s.backoffMultiplier

\* the backoff update of handlePollingError
nextBackoffMultiplier(s, pollingError) ==
    IF pollingError.type = "rate_limit"
    THEN MathMin(RatMul(s.backoffMultiplier, Two), RatInt(MaxRateLimitBackoff))
    ELSE IF s.consecutiveErrors >= ErrorBackoffThreshold
    THEN MathMin(RatMul(s.backoffMultiplier, OneAndHalf), RatInt(MaxErrorBackoff))
    ELSE s.backoffMultiplier

\* handlePollingError without the try/catch around the error handler: what the
\* handler throws leaves the callback before scheduleNextPoll is reached
handlePollingErrorUncaught(s, error, behs, handlerBeh) ==
    LET counted == [s EXCEPT !.consecutiveErrors = @ + 1]
        pollingError == createPollingError(counted, error)
        recorded == [counted EXCEPT !.lastError = pollingError]
        emitted == emit(recorded, "error", pollingError, behs)
        backedOff == [emitted EXCEPT !.backoffMultiplier = nextBackoffMultiplier(emitted, pollingError)]
        called == Log(backedOff, Delivery(backedOff, "errorHandler", "error", pollingError,
                                           handlerBeh))
        ran == IF handlerBeh = "stopPolling" THEN CallStopPolling(called) ELSE called
    IN IF errorHandler
       THEN IF handlerBeh = "throw" THEN ran ELSE scheduleNextPoll(ran)
       ELSE scheduleNextPoll(logDefaultError(backedOff, pollingError))

\* handlePollingError(error)
handlePollingError(s, error, behs, handlerBeh) ==
    LET counted == [s EXCEPT !.consecutiveErrors = @ + 1]
        pollingError == createPollingError(counted, error)
        recorded == [counted EXCEPT !.lastError = pollingError]
        emitted == emit(recorded, "error", pollingError, behs)
        backedOff == [emitted EXCEPT !.backoffMultiplier = nextBackoffMultiplier(emitted, pollingError)]
        called == Log(backedOff, Delivery(backedOff, "errorHandler", "error", pollingError,
                                           handlerBeh))
        ran == IF handlerBeh = "stopPolling" THEN CallStopPolling(called) ELSE called
        handled == IF errorHandler
                   THEN IF handlerBeh = "throw"
                        THEN logDefaultError(
                                 Log(ran, Call("console.error", "errorHandler", pollingError, "return")),
                                 pollingError)
                        ELSE ran
                   ELSE logDefaultError(backedOff, pollingError)
    IN scheduleNextPoll(handled)

\* the success path without the else branch that adopts an unchanged record
pollSucceededKeepingUnchanged(s, updatedPrompt, behs, callbackBeh) ==
    LET hasChanged == detectChanges(s.currentPrompt, updatedPrompt)
        changeEvent == createChangeEvent(s.currentPrompt, updatedPrompt)
        adopted == [s EXCEPT !.currentPrompt = updatedPrompt]
        emitted == IF hasChanged THEN emit(adopted, "change", changeEvent, behs) ELSE s
        reset == [emitted EXCEPT !.backoffMultiplier = One,
                                 !.consecutiveErrors = 0,
                                 !.lastError = NoError]
    IN scheduleNextPoll(reset)

\* the success path that schedules the next poll before it resets the backoff
pollSucceededScheduledEarly(s, updatedPrompt, behs, callbackBeh) ==
    LET hasChanged == detectChanges(s.currentPrompt, updatedPrompt)
        changeEvent == createChangeEvent(s.currentPrompt, updatedPrompt)
        adopted == [s EXCEPT !.currentPrompt = updatedPrompt]
        emitted == IF hasChanged THEN emit(adopted, "change", changeEvent, behs) ELSE adopted
    IN [scheduleNextPoll(emitted) EXCEPT !.backoffMultiplier = One,
                                         !.consecutiveErrors = 0,
                                         !.lastError = NoError]

\* the success path that replaces the held record after the listeners and the callback
\* have run
pollSucceededAdoptingLate(s, updatedPrompt, behs, callbackBeh) ==
    LET hasChanged == detectChanges(s.currentPrompt, updatedPrompt)
        changeEvent == createChangeEvent(s.currentPrompt, updatedPrompt)
        emitted == IF hasChanged THEN emit(s, "change", changeEvent, behs) ELSE s
        called == Log(emitted, Delivery(emitted, "onChangeCallback", "change", changeEvent,
                                        callbackBeh))
        ran == IF callbackBeh = "stopPolling" THEN CallStopPolling(called) ELSE called
        caught == IF callbackBeh = "throw"
                  THEN Log(ran, Call("console.error", "onChangeCallback", changeEvent, "return"))
                  ELSE ran
        notified == IF hasChanged /\ onChangeCallback THEN caught ELSE emitted
        reset == [notified EXCEPT !.currentPrompt = updatedPrompt,
                                  !.backoffMultiplier = One,
                                  !.consecutiveErrors = 0,
                                  !.lastError = NoError]
    IN scheduleNextPoll(reset)

\* the success path that resets the counters and keeps the recorded error
pollSucceededKeepingLastError(s, updatedPrompt, behs, callbackBeh) ==
    LET hasChanged == detectChanges(s.currentPrompt, updatedPrompt)
        changeEvent == createChangeEvent(s.currentPrompt, updatedPrompt)
        adopted == [s EXCEPT !.currentPrompt = updatedPrompt]
        emitted == IF hasChanged THEN emit(adopted, "change", changeEvent, behs) ELSE adopted
        reset == [emitted EXCEPT !.backoffMultiplier = One, !.consecutiveErrors = 0]
    IN scheduleNextPoll(reset)

\* the timer callback of scheduleNextPoll after fetchPrompt() resolved with updatedPrompt
pollSucceeded(s, updatedPrompt, behs, callbackBeh) ==
    LET hasChanged == detectChanges(s.currentPrompt, updatedPrompt)
        changeEvent == createChangeEvent(s.currentPrompt, updatedPrompt)
        adopted == [s EXCEPT !.currentPrompt = updatedPrompt]
        emitted == IF hasChanged THEN emit(adopted, "change", changeEvent, behs) ELSE adopted
        called == Log(emitted, Delivery(emitted, "onChangeCallback", "change", changeEvent,
                                        callbackBeh))
        ran == IF callbackBeh = "stopPolling" THEN CallStopPolling(called) ELSE called
        caught == IF callbackBeh = "throw"
                  THEN Log(ran, Call("console.error", "onChangeCallback", changeEvent, "return"))
                  ELSE ran
        notified == IF hasChanged /\ onChangeCallback THEN caught ELSE emitted
        reset == [notified EXCEPT !.backoffMultiplier = One,
                                  !.consecutiveErrors = 0,
                                  !.lastError = NoError]
    IN scheduleNextPoll(reset)

\* the timer callback of scheduleNextPoll from the point where fetchPrompt() settles
pollContinuation(s, outcome, behs, handlerBeh) ==
    LET fetched == fetchPrompt(outcome)
        settled == Log(s, Call("fetchPrompt", outcome.status, fetched.value,
                               IF fetched.ok THEN "resolved" ELSE "rejected"))
    IN IF ~fetched.ok
       THEN handlePollingError(settled, fetched.error, behs, handlerBeh)
       ELSE IF fetched.value = Null
       THEN \* detectChanges reads a field of null: a TypeError, caught by the callback
            handlePollingError(settled, Thrown("TypeError", Undefined), behs, handlerBeh)
       ELSE pollSucceeded(settled, fetched.value, behs, handlerBeh)

----------------------------------------------------------------------------
(* PromptrunSSEPromptImpl.  A connection is an EventSource with a readyState; *)
(* the one this.eventSource refers to is target 0, an open one the session no *)
(* longer refers to is target i > 0, the i-th of the orphans.                 *)

SelfSSE == [currentPrompt |-> currentPrompt,
            eventSource   |-> eventSource,
            orphans       |-> orphans,
            isConnected   |-> isConnected,
            lastError     |-> lastError,
            pendingTimers |-> pendingTimers,
            timerDelay    |-> timerDelay,
            stopCalled    |-> stopCalled,
            calls         |-> <<>>]

CommitSSE(s) ==
    /\ currentPrompt' = s.currentPrompt
    /\ eventSource' = s.eventSource
    /\ orphans' = s.orphans
    /\ isConnected' = s.isConnected
    /\ lastError' = s.lastError
    /\ pendingTimers' = s.pendingTimers
    /\ timerDelay' = s.timerDelay
    /\ stopCalled' = s.stopCalled
    /\ calls' = s.calls

\* the connections that are not closed: only these dispatch events
Targets(s) ==
    (IF s.eventSource \in {"CONNECTING", "OPEN"} THEN {0} ELSE {}) \cup (1..Len(s.orphans))

readyState(s, k) == IF k = 0 THEN s.eventSource ELSE s.orphans[k]

\* the transport moves connection k to another readyState; a closed connection that
\* nothing refers to is gone
SetReadyState(s, k, state) ==
    IF k = 0
    THEN [s EXCEPT !.eventSource = state]
    ELSE IF state = "CLOSED"
    THEN [s EXCEPT !.orphans = SubSeq(@, 1, k - 1) \o SubSeq(@, k + 1, Len(@))]
    ELSE [s EXCEPT !.orphans[k] = state]

\* PromptrunSSEPromptImpl.getStatus(): isPolling is the connected flag, the interval
\* and the counters are constants
getStatusSSE(s) ==
    [isPolling         |-> s.isConnected,
     currentInterval   |-> RatInt(0),
     consecutiveErrors |-> 0,
     backoffMultiplier |-> One,
     lastError         |-> s.lastError]

\* handleSSEError(error)
handleSSEError(s, error, behs) ==
    LET pollingError == [type |-> "network", statusCode |-> Undefined, cause |-> error,
                         consecutiveErrors |-> 1, backoffMultiplier |-> One]
        recorded == [s EXCEPT !.lastError = pollingError]
    IN emit(recorded, "error", pollingError, behs)

\* eventSource.onopen
onopen(s) ==
    [Log(s, Call("onopen", "open", Null, "return")) EXCEPT !.isConnected = TRUE,
                                                           !.lastError = NoError]

\* eventSource.onmessage treating a message it cannot parse as a lost connection
onmessageGivingUp(s, data, behs, callbackBeh) ==
    LET received == Log(s, Call("onmessage", "message", data, "return"))
    IN IF data = Null
       THEN [handleSSEError([received EXCEPT !.isConnected = FALSE], "Error", behs)
                EXCEPT !.pendingTimers = @ + 1, !.timerDelay = RatInt(reconnectDelayMs)]
       ELSE LET hasChanged == detectChanges(s.currentPrompt, data)
                changeEvent == createChangeEvent(s.currentPrompt, data)
                adopted == [received EXCEPT !.currentPrompt = data]
                emitted == IF hasChanged THEN emit(adopted, "change", changeEvent, behs) ELSE adopted
                called == Log(emitted, Call("onChangeCallback", "change", changeEvent, callbackBeh))
                ran == IF callbackBeh = "stopPolling" THEN CallStopPolling(called) ELSE called
                caught == IF callbackBeh = "throw"
                          THEN Log(ran, Call("console.error", "onChangeCallback", changeEvent, "return"))
                          ELSE ran
            IN IF hasChanged /\ onChangeCallback THEN caught ELSE emitted

\* eventSource.onmessage keeping the held record when no compared field differs
onmessageKeepingUnchanged(s, data, behs, callbackBeh) ==
    LET received == Log(s, Call("onmessage", "message", data, "return"))
    IN IF data = Null
       THEN handleSSEError(received, "Error", behs)
       ELSE LET hasChanged == detectChanges(s.currentPrompt, data)
                changeEvent == createChangeEvent(s.currentPrompt, data)
                adopted == [received EXCEPT !.currentPrompt = data]
                emitted == IF hasChanged THEN emit(adopted, "change", changeEvent, behs) ELSE received
                called == Log(emitted, Call("onChangeCallback", "change", changeEvent, callbackBeh))
                ran == IF callbackBeh = "stopPolling" THEN CallStopPolling(called) ELSE called
                caught == IF callbackBeh = "throw"
                          THEN Log(ran, Call("console.error", "onChangeCallback", changeEvent, "return"))
                          ELSE ran
            IN IF hasChanged /\ onChangeCallback THEN caught ELSE emitted

\* eventSource.onmessage, data being what JSON.parse makes of event.data (Null: it
\* throws, or the data is the JSON text null)
onmessage(s, data, behs, callbackBeh) ==
    LET received == Log(s, Call("onmessage", "message", data, "return"))
    IN IF data = Null
       THEN handleSSEError(received, "Error", behs)
       ELSE LET hasChanged == detectChanges(s.currentPrompt, data)
                changeEvent == createChangeEvent(s.currentPrompt, data)
                adopted == [received EXCEPT !.currentPrompt = data]
                emitted == IF hasChanged THEN emit(adopted, "change", changeEvent, behs) ELSE adopted
                called == Log(emitted, Call("onChangeCallback", "change", changeEvent, callbackBeh))
                ran == IF callbackBeh = "stopPolling" THEN CallStopPolling(called) ELSE called
                caught == IF callbackBeh = "throw"
                          THEN Log(ran, Call("console.error", "onChangeCallback", changeEvent, "return"))
                          ELSE ran
            IN IF hasChanged /\ onChangeCallback THEN caught ELSE emitted

\* eventSource.onerror, up to and including the setTimeout call
onerror(s, behs) ==
    LET disconnected == [Log(s, Call("onerror", "error", Null, "return")) EXCEPT !.isConnected = FALSE]
        handled == handleSSEError(disconnected, "Error", behs)
    IN [handled EXCEPT !.pendingTimers = @ + 1, !.timerDelay = RatInt(reconnectDelayMs)]

\* setupSSE(): `throws` tells whether new EventSource(url, ...) throws
setupSSE(s, throws, behs) ==
    IF throws
    THEN handleSSEError(Log(s, Call("new EventSource", "stream", Null, "throw")), "Error", behs)
    ELSE [Log(s, Call("new EventSource", "stream", Null, "return"))
             EXCEPT !.orphans = IF s.eventSource \in {"CONNECTING", "OPEN"}
                                THEN Append(@, s.eventSource)
                                ELSE @,
                    !.eventSource = "CONNECTING"]

\* the reconnect timer callback without its test of the current connection
reconnectUnguarded(s, throws, behs) ==
    setupSSE(s, throws, behs)

\* the callback of the reconnect timer set by onerror
reconnect(s, throws, behs) ==
    IF s.eventSource = "null" \/ s.eventSource = "CLOSED"
    THEN setupSSE(s, throws, behs)
    ELSE s

----------------------------------------------------------------------------
(* Construction *)

Max(a, b) == IF a >= b THEN a ELSE b

\* the PromptrunConfigurationError the constructor throws for an interval below the minimum
PromptrunConfigurationError(interval) ==
    [class |-> "PromptrunConfigurationError", parameter |-> "poll",
     providedValue |-> interval, expectedValue |-> minPollIntervalMs]

\* the object as the field initialisers and the first assignments of the constructor
\* leave it, before startPolling()
Fresh(initialPrompt) ==
    [currentPrompt |-> initialPrompt, pollingInterval |-> "null",
     backoffMultiplier |-> One, consecutiveErrors |-> 0,
     lastError |-> NoError, pendingTimers |-> 0,
     timerDelay |-> RatInt(0), stopCalled |-> FALSE, calls |-> <<>>]

\* the fields of the other class and the histories, as they are for every new poll session
NewPollSession ==
    /\ listeners = [e \in Events |-> <<>>]
    /\ inFlight = 0
    /\ stopCalled = FALSE
    /\ onlyRateLimits = TRUE
    /\ priorStatus = Null
    /\ calls = <<>>
    /\ eventSource = "null"
    /\ orphans = <<>>
    /\ isConnected = FALSE

\* a constructor that clamps an interval below the minimum instead of rejecting it
constructorClamping(initialPrompt, interval, onPollingError, enforceMinimumInterval, onChange) ==
    /\ args = [pollIntervalMs |-> interval, enforceMinimumInterval |-> enforceMinimumInterval]
    /\ currentPrompt = initialPrompt
    /\ errorHandler = onPollingError
    /\ onChangeCallback = onChange
    /\ backoffMultiplier = One
    /\ consecutiveErrors = 0
    /\ lastError = NoError
    /\ NewPollSession
    /\ thrown = Null
    /\ pollIntervalMs = IF enforceMinimumInterval
                        THEN Max(interval, minPollIntervalMs)
                        ELSE interval
    /\ LET started == scheduleNextPoll(Fresh(initialPrompt))
       IN /\ pollingInterval = started.pollingInterval
          /\ pendingTimers = started.pendingTimers
          /\ timerDelay = started.timerDelay

\* a constructor that raises the interval to the minimum with enforcement off as well
constructorAlwaysClamping(initialPrompt, interval, onPollingError, enforceMinimumInterval, onChange) ==
    /\ args = [pollIntervalMs |-> interval, enforceMinimumInterval |-> enforceMinimumInterval]
    /\ currentPrompt = initialPrompt
    /\ errorHandler = onPollingError
    /\ onChangeCallback = onChange
    /\ backoffMultiplier = One
    /\ consecutiveErrors = 0
    /\ lastError = NoError
    /\ NewPollSession
    /\ IF enforceMinimumInterval /\ interval < minPollIntervalMs
       THEN /\ thrown = PromptrunConfigurationError(interval)
            /\ pollIntervalMs = Undefined
            /\ pollingInterval = "null"
            /\ pendingTimers = 0
            /\ timerDelay = RatInt(0)
       ELSE /\ thrown = Null
            /\ pollIntervalMs = Max(interval, minPollIntervalMs)
            /\ LET started == scheduleNextPoll(Fresh(initialPrompt))
               IN /\ pollingInterval = started.pollingInterval
                  /\ pendingTimers = started.pendingTimers
                  /\ timerDelay = started.timerDelay

\* new PromptrunPollingPromptImpl(initialPrompt, ..., pollIntervalMs, ..., onPollingError,
\* enforceMinimumInterval, onChange): it returns normally (thrown = Null) or throws
constructor(initialPrompt, interval, onPollingError, enforceMinimumInterval, onChange) ==
    /\ args = [pollIntervalMs |-> interval, enforceMinimumInterval |-> enforceMinimumInterval]
    /\ currentPrompt = initialPrompt
    /\ errorHandler = onPollingError
    /\ onChangeCallback = onChange
    /\ backoffMultiplier = One
    /\ consecutiveErrors = 0
    /\ lastError = NoError
    /\ NewPollSession
    /\ IF enforceMinimumInterval /\ interval < minPollIntervalMs
       THEN \* thrown before this.pollIntervalMs is assigned and before startPolling()
            /\ thrown = PromptrunConfigurationError(interval)
            /\ pollIntervalMs = Undefined
            /\ pollingInterval = "null"
            /\ pendingTimers = 0
            /\ timerDelay = RatInt(0)
       ELSE /\ thrown = Null
            /\ pollIntervalMs = IF enforceMinimumInterval
                                THEN Max(interval, minPollIntervalMs)
                                ELSE interval
            /\ LET started == scheduleNextPoll(Fresh(initialPrompt))
               IN /\ pollingInterval = started.pollingInterval
                  /\ pendingTimers = started.pendingTimers
                  /\ timerDelay = started.timerDelay

\* the constructor returned an object: the application has a session to call
Constructed == thrown = Null

\* a session polling a server that has a few versions of the prompt
Init ==
    /\ serverPrompts = FewPrompts
    /\ options = Null
    /\ \E interval \in Intervals, onPollingError \in BOOLEAN, onChange \in BOOLEAN :
           constructor(BasePrompt, interval[1], onPollingError, interval[2], onChange)

----------------------------------------------------------------------------
(* Steps *)

\* a timer callback that arms the next timer before it awaits the fetch
TimerFiresAndRearms ==
    /\ pendingTimers > 0
    /\ inFlight < MaxInFlight
    /\ pendingTimers' = pendingTimers
    /\ pollingInterval' = "pending"
    /\ inFlight' = inFlight + 1
    /\ calls' = <<>>
    /\ priorStatus' = Null
    /\ UNCHANGED <<currentPrompt, pollIntervalMs, backoffMultiplier, consecutiveErrors,
                   errorHandler, lastError, onChangeCallback, listeners, timerDelay,
                   serverPrompts, stopCalled, onlyRateLimits, thrown, args, sseVars, options>>

\* the timer set by scheduleNextPoll fires: the callback runs up to `await this.fetchPrompt()`
TimerFires ==
    /\ pendingTimers > 0
    /\ inFlight < MaxInFlight
    /\ pendingTimers' = pendingTimers - 1
    /\ pollingInterval' = IF pollingInterval = "pending" THEN "spent" ELSE pollingInterval
    /\ inFlight' = inFlight + 1
    /\ calls' = <<>>
    /\ priorStatus' = Null
    /\ UNCHANGED <<currentPrompt, pollIntervalMs, backoffMultiplier, consecutiveErrors,
                   errorHandler, lastError, onChangeCallback, listeners, timerDelay,
                   serverPrompts, stopCalled, onlyRateLimits, thrown, args, sseVars, options>>

\* fetchPrompt() settles and the rest of the timer callback runs
FetchSettles ==
    /\ inFlight > 0
    /\ inFlight' = inFlight - 1
    /\ UNCHANGED <<pollIntervalMs, errorHandler, onChangeCallback, listeners, serverPrompts,
                   thrown, args, sseVars, options>>
    /\ priorStatus' = [consecutiveErrors |-> consecutiveErrors,
                       backoffMultiplier |-> backoffMultiplier]
    /\ \E outcome \in FetchOutcomes, behs \in [HandlerIds -> Behaviours], handlerBeh \in Behaviours :
          /\ (~fetchPrompt(outcome).ok \/ outcome.body = Null)
                 => consecutiveErrors < MaxConsecutiveErrors
          \* a handler that is not registered is not called: its behaviour is immaterial
          /\ \A h \in HandlerIds : ~Registered(h) => behs[h] = "return"
          /\ (~errorHandler /\ ~onChangeCallback) => handlerBeh = "return"
          /\ \E after \in {pollContinuation(Self, outcome, behs, handlerBeh)} : Commit(after)
    /\ onlyRateLimits' = IF consecutiveErrors' = 0
                         THEN TRUE
                         ELSE onlyRateLimits /\ lastError'.type = "rate_limit"

\* the application calls stopPolling()
StopPolling ==
    /\ Constructed
    /\ Commit(CallStopPolling(Self))
    /\ priorStatus' = Null
    /\ UNCHANGED <<pollIntervalMs, errorHandler, onChangeCallback, listeners, inFlight,
                   serverPrompts, onlyRateLimits, thrown, args, sseVars, options>>

Frame == UNCHANGED <<currentPrompt, pollingInterval, pollIntervalMs, backoffMultiplier,
                     consecutiveErrors, lastError, onChangeCallback, pendingTimers,
                     timerDelay, inFlight, serverPrompts, stopCalled, onlyRateLimits,
                     thrown, args, sseVars, options>>

\* the application calls onError(handler)
OnError ==
    /\ Constructed
    /\ errorHandler' = TRUE
    /\ calls' = <<>>
    /\ priorStatus' = Null
    /\ UNCHANGED listeners
    /\ Frame

\* the application calls removeErrorHandler()
RemoveErrorHandler ==
    /\ Constructed
    /\ errorHandler' = FALSE
    /\ calls' = <<>>
    /\ priorStatus' = Null
    /\ UNCHANGED listeners
    /\ Frame

\* the application calls on(event, handler)
On ==
    /\ Constructed
    /\ \E e \in Events, h \in HandlerIds : listeners' = on(listeners, e, h)
    /\ calls' = <<>>
    /\ priorStatus' = Null
    /\ UNCHANGED errorHandler
    /\ Frame

\* the application calls off(event, handler) or off(event)
Off ==
    /\ Constructed
    /\ \E e \in Events :
          \/ \E h \in HandlerIds : listeners' = off(listeners, e, h)
          \/ listeners' = offAll(listeners, e)
    /\ calls' = <<>>
    /\ priorStatus' = Null
    /\ UNCHANGED errorHandler
    /\ Frame

Next ==
    \/ TimerFires
    \/ FetchSettles
    \/ StopPolling
    \/ OnError
    \/ RemoveErrorHandler
    \/ On
    \/ Off

Spec == Init /\ [][Next]_vars

----------------------------------------------------------------------------
(* The push session *)

\* new PromptrunSSEPromptImpl(initialPrompt, ..., onChange); no listener is registered
\* yet, so what setupSSE emits reaches nobody
constructorSSE(initialPrompt, onChange, throws) ==
    /\ currentPrompt = initialPrompt
    /\ onChangeCallback = onChange
    /\ listeners = [e \in Events |-> <<>>]
    /\ LET started == setupSSE([currentPrompt |-> initialPrompt, eventSource |-> "null",
                                orphans |-> <<>>, isConnected |-> FALSE,
                                lastError |-> NoError, pendingTimers |-> 0,
                                timerDelay |-> RatInt(0), stopCalled |-> FALSE,
                                calls |-> <<>>],
                               throws, [h \in HandlerIds |-> "return"])
       IN /\ eventSource = started.eventSource
          /\ orphans = started.orphans
          /\ isConnected = started.isConnected
          /\ lastError = started.lastError
          /\ pendingTimers = started.pendingTimers
          /\ timerDelay = started.timerDelay
          /\ stopCalled = started.stopCalled
          /\ calls = started.calls
    \* the fields of the other class and the histories
    /\ pollingInterval = "null"
    /\ pollIntervalMs = Undefined
    /\ backoffMultiplier = One
    /\ consecutiveErrors = 0
    /\ errorHandler = FALSE
    /\ inFlight = 0
    /\ onlyRateLimits = TRUE
    /\ priorStatus = Null
    /\ thrown = Null
    /\ args = Null

\* a push session of a server that has a few versions of the prompt, on a platform
\* whose EventSource constructor may throw
InitSSE ==
    /\ serverPrompts = FewPrompts
    /\ options = Null
    /\ \E onChange \in BOOLEAN, throws \in BOOLEAN :
           constructorSSE(BasePrompt, onChange, throws)

\* a handler that is not registered is not called: its behaviour is immaterial
Called(behs) == \A h \in HandlerIds : ~Registered(h) => behs[h] = "return"

FrameSSE == UNCHANGED <<pollVars, onChangeCallback, listeners, serverPrompts, priorStatus,
                        thrown, args, options>>

\* a connection is established: its onopen runs
ConnectionOpens ==
    /\ \E k \in Targets(SelfSSE) :
          /\ readyState(SelfSSE, k) = "CONNECTING"
          /\ CommitSSE(onopen(SetReadyState(SelfSSE, k, "OPEN")))
    /\ FrameSSE

\* a message arrives on an established connection: its onmessage runs
MessageArrives ==
    /\ \E k \in Targets(SelfSSE), data \in serverPrompts \cup {Null},
          behs \in [HandlerIds -> Behaviours], callbackBeh \in Behaviours :
          /\ readyState(SelfSSE, k) = "OPEN"
          /\ Called(behs)
          /\ ~onChangeCallback => callbackBeh = "return"
          /\ \E after \in {onmessage(SelfSSE, data, behs, callbackBeh)} : CommitSSE(after)
    /\ FrameSSE

\* a connection fails or is closed by the server: the EventSource retries by itself
\* (CONNECTING) or gives up (CLOSED), and its onerror runs
ConnectionFails ==
    /\ pendingTimers < MaxReconnectTimers
    /\ \E k \in Targets(SelfSSE), state \in {"CONNECTING", "CLOSED"},
          behs \in [HandlerIds -> Behaviours] :
          /\ Called(behs)
          /\ \E after \in {onerror(SetReadyState(SelfSSE, k, state), behs)} : CommitSSE(after)
    /\ FrameSSE

\* a reconnect timer fires
ReconnectTimerFires ==
    /\ pendingTimers > 0
    /\ \E throws \in BOOLEAN, behs \in [HandlerIds -> Behaviours] :
          /\ Called(behs)
          /\ Len(orphans) < MaxOrphans
          /\ \E after \in {reconnect([SelfSSE EXCEPT !.pendingTimers = @ - 1], throws, behs)} :
                CommitSSE(after)
    /\ FrameSSE

\* the application calls stopPolling() on the push session
StopPollingSSE ==
    /\ CommitSSE(CallStopPolling(SelfSSE))
    /\ FrameSSE

\* the application calls onError(handler) of a push session: eventEmitter.on("error", handler)
OnErrorSSE ==
    /\ Constructed
    /\ \E h \in HandlerIds : listeners' = on(listeners, "error", h)
    /\ errorHandler' = TRUE
    /\ calls' = <<>>
    /\ priorStatus' = Null
    /\ Frame

\* the application calls removeErrorHandler() of a push session: eventEmitter.off("error")
RemoveErrorHandlerSSE ==
    /\ Constructed
    /\ listeners' = offAll(listeners, "error")
    /\ errorHandler' = FALSE
    /\ calls' = <<>>
    /\ priorStatus' = Null
    /\ Frame

NextSSE ==
    \/ ConnectionOpens
    \/ MessageArrives
    \/ ConnectionFails
    \/ ReconnectTimerFires
    \/ StopPollingSSE
    \/ OnErrorSSE
    \/ RemoveErrorHandlerSSE
    \/ On
    \/ Off

SpecSSE == InitSSE /\ [][NextSSE]_vars

\* the event loop runs every timer that is due
SpecSSELive == InitSSE /\ [][NextSSE]_vars /\ WF_vars(ReconnectTimerFires)

----------------------------------------------------------------------------
\* a session polling a server whose records differ from the first one in any single field
InitDetect ==
    /\ serverPrompts = NearPrompts
    /\ options = Null
    /\ constructor(BasePrompt, minPollIntervalMs, FALSE, TRUE, TRUE)

\* ... observed through the poll cycle and its listeners only
NextDetect ==
    \/ TimerFires
    \/ FetchSettles
    \/ On

SpecDetect == InitDetect /\ [][NextDetect]_vars

\* a session created with the minimum interval
InitLive ==
    /\ serverPrompts = FewPrompts
    /\ options = Null
    /\ \E onPollingError \in BOOLEAN, onChange \in BOOLEAN :
           constructor(BasePrompt, minPollIntervalMs, onPollingError, TRUE, onChange)

\* the event loop runs every timer that is due
SpecLive == InitLive /\ [][Next]_vars /\ WF_vars(TimerFires)

TypeOK ==
    /\ currentPrompt \in Prompts
    /\ pollingInterval \in {"null", "pending", "spent"}
    /\ consecutiveErrors \in 0..MaxConsecutiveErrors
    /\ backoffMultiplier \in (1..(8 * MaxRateLimitBackoff)) \X {1, 2, 4, 8}
    /\ errorHandler \in BOOLEAN
    /\ onChangeCallback \in BOOLEAN
    /\ stopCalled \in BOOLEAN
    /\ onlyRateLimits \in BOOLEAN

----------------------------------------------------------------------------
(* A session of either kind: what prompt() of the provider returns is a poll *)
(* session or a push session, and only the constructor of the former records *)
(* its arguments.                                                            *)

IsPush == args = Null

InitSessions == InitLive \/ InitSSE

NextSessions ==
    \/ ~IsPush /\ Next
    \/ IsPush /\ NextSSE

SpecSessions == InitSessions /\ [][NextSessions]_vars

----------------------------------------------------------------------------
(* PromptrunSDK.prompt(options): what it returns after the first fetch.  The *)
(* one-shot result is an object literal whose methods do nothing.            *)

\* options.poll: omitted, a number, or "sse"
PollOptions ==
    [kind : {"omitted", "sse"}, ms : {0}] \cup [kind : {"number"}, ms : {-1000, 0, 1000, 5000, 600000}]

\* the options of prompt() that decide what it returns; `enhanced` tells whether inputs
\* or inputsSchema is given
PromptOptions == [poll : PollOptions, enhanced : BOOLEAN, enforceMinimumInterval : BOOLEAN]

\* const { poll = 0, ... } = options
Poll(o) == IF o.poll.kind = "omitted" THEN [kind |-> "number", ms |-> 0] ELSE o.poll

\* the branch of prompt() taken when poll >= 0 starts a poll session
StrategyPollingZero(o) ==
    IF o.enhanced THEN "oneshot"
    ELSE IF Poll(o).kind = "sse" THEN "sse"
    ELSE IF Poll(o).ms >= 0 THEN "poll"
    ELSE "oneshot"

\* the branch of prompt() taken
Strategy(o) ==
    IF o.enhanced THEN "oneshot"
    ELSE IF Poll(o).kind = "sse" THEN "sse"
    ELSE IF Poll(o).ms > 0 THEN "poll"
    ELSE "oneshot"

\* getStatus of the one-shot result
getStatusOneShot ==
    [isPolling |-> FALSE, currentInterval |-> RatInt(0), consecutiveErrors |-> 0,
     backoffMultiplier |-> One]

\* no session object is constructed
OneShot ==
    /\ currentPrompt = BasePrompt
    /\ listeners = [e \in Events |-> <<>>]
    /\ calls = <<>>
    /\ pollingInterval = "null"
    /\ pollIntervalMs = Undefined
    /\ backoffMultiplier = One
    /\ consecutiveErrors = 0
    /\ errorHandler = FALSE
    /\ lastError = NoError
    /\ onChangeCallback = FALSE
    /\ pendingTimers = 0
    /\ timerDelay = RatInt(0)
    /\ inFlight = 0
    /\ stopCalled = FALSE
    /\ onlyRateLimits = TRUE
    /\ priorStatus = Null
    /\ thrown = Null
    /\ args = Null
    /\ eventSource = "null"
    /\ orphans = <<>>
    /\ isConnected = FALSE

\* prompt(o) on a platform whose EventSource constructor throws or not
prompt(o, throws) ==
    /\ options = o
    /\ CASE Strategy(o) = "sse"  -> constructorSSE(BasePrompt, FALSE, throws)
         [] Strategy(o) = "poll" -> constructor(BasePrompt, Poll(o).ms, FALSE,
                                                o.enforceMinimumInterval, FALSE)
         [] OTHER                -> OneShot

InitPrompt ==
    /\ serverPrompts = {BasePrompt}
    /\ \E o \in PromptOptions, throws \in BOOLEAN :
          /\ Strategy(o) # "sse" => ~throws
          /\ prompt(o, throws)

\* the application calls a method of the one-shot result: nothing happens
OneShotCall ==
    /\ \E method \in {"stopPolling", "onError", "removeErrorHandler", "on", "off", "once"} :
          calls' = <<Call(method, "none", Null, "return")>>
    /\ UNCHANGED <<currentPrompt, pollVars, lastError, onChangeCallback, listeners,
                   pendingTimers, timerDelay, serverPrompts, stopCalled, priorStatus,
                   thrown, args, sseVars, options>>

NextPrompt ==
    \/ Strategy(options) = "poll" /\ Next
    \/ Strategy(options) = "sse" /\ NextSSE
    \/ Strategy(options) = "oneshot" /\ OneShotCall

SpecPrompt == InitPrompt /\ [][NextPrompt]_vars

----------------------------------------------------------------------------
(* PollingEventEmitter on its own, with handlers that use the emitter while *)
(* it is emitting.  A registered callable is a handler function of the      *)
(* application (id 0) or the id-th onceHandler closure made by once for     *)
(* such a function.  handlers.forEach walks the live Set: a callable        *)
(* deleted before its turn is passed over (its place is kept as Deleted     *)
(* until the step ends), one added during the walk is appended and visited. *)

EmitterHandlers == {"h1", "h2"}

Payloads == {"first", "second"}

Plain(h) == [fn |-> h, id |-> 0]

Wrapper(h, n) == [fn |-> h, id |-> n]

Deleted == [fn |-> "deleted", id |-> 0]

\* the other handler function of the application
Other == [h1 |-> "h2", h2 |-> "h1"]

\* what a handler function does when invoked: return, throw, off(event, itself),
\* off(event, the other function), on(event, the other function), or
\* emit(event, payload) once more
EmitterBehaviours == {"return", "throw", "offSelf", "offOther", "onOther", "emit"}

\* the callables registered for an event, in insertion order
Live(ls, event) == SelectSeq(ls[event], LAMBDA x : x # Deleted)

Compact(ls) == [ev \in Events |-> Live(ls, ev)]

Registrations(ls) == Len(Live(ls, "change")) + Len(Live(ls, "error"))

\* an id no registered onceHandler has
FreshId(ls) ==
    CHOOSE n \in 1..(Registrations(ls) + 1) :
        \A ev \in Events : \A i \in 1..Len(ls[ev]) : ls[ev][i].id # n

\* Set.add and Set.delete while a forEach of the Set may be running
liveOn(e, event, x) ==
    IF \E i \in 1..Len(e.ls[event]) : e.ls[event][i] = x
    THEN e
    ELSE [e EXCEPT !.ls[event] = Append(@, x)]

liveOff(e, event, x) ==
    [e EXCEPT !.ls[event] = [i \in 1..Len(@) |-> IF @[i] = x THEN Deleted ELSE @[i]]]

\* the invocation of a callable, as the log of calls records it
Invocation(x, event, payload, depth, outcome) ==
    [op |-> "listener", event |-> event, arg |-> payload, outcome |-> outcome,
     handler |-> x, depth |-> depth]

\* a call of emit, as the log of calls records it
Emission(event, payload, depth) ==
    [op |-> "emit", event |-> event, arg |-> payload, outcome |-> "return", depth |-> depth]

RECURSIVE forEach(_, _, _, _, _, _)
RECURSIVE emitReentrant(_, _, _, _, _)

\* the handler function behind callable x runs; a handler emits at most once more
handlerCall(e, event, payload, x, behs, depth) ==
    LET b == behs[x.fn]
        called == Log(e, Invocation(x, event, payload, depth, b))
    IN CASE b = "return"   -> called
         [] b = "throw"    -> [called EXCEPT !.threw = TRUE]
         [] b = "offSelf"  -> liveOff(called, event, Plain(x.fn))
         [] b = "offOther" -> liveOff(called, event, Plain(Other[x.fn]))
         [] b = "onOther"  -> liveOn(called, event, Plain(Other[x.fn]))
         [] b = "emit"     -> IF depth = 0
                              THEN emitReentrant(called, event, payload, behs, depth + 1)
                              ELSE called

\* onceHandler: handler(...args); this.off(event, onceHandler)
onceHandler(e, event, payload, x, behs, depth) ==
    LET ran == handlerCall(e, event, payload, x, behs, depth)
    IN IF ran.threw THEN ran ELSE liveOff(ran, event, x)

\* the body of handlers.forEach without its try/catch
tryHandlerUncaught(e, event, payload, x, behs, depth) ==
    IF x.id > 0
    THEN onceHandler(e, event, payload, x, behs, depth)
    ELSE handlerCall(e, event, payload, x, behs, depth)

\* the body of handlers.forEach: try { handler(...args) } catch { console.error }
tryHandler(e, event, payload, x, behs, depth) ==
    LET ran == IF x.id > 0
               THEN onceHandler(e, event, payload, x, behs, depth)
               ELSE handlerCall(e, event, payload, x, behs, depth)
    IN IF ran.threw
       THEN [Log(ran, Call("console.error", event, x, "return")) EXCEPT !.threw = FALSE]
       ELSE ran

\* handlers.forEach walking the Set from its last callable to its first
RECURSIVE forEachReversed(_, _, _, _, _, _)
forEachReversed(e, event, payload, i, behs, depth) ==
    IF e.threw \/ i > Len(e.ls[event])
    THEN e
    ELSE LET k == Len(e.ls[event]) + 1 - i
         IN IF e.ls[event][k] = Deleted
            THEN forEachReversed(e, event, payload, i + 1, behs, depth)
            ELSE forEachReversed(tryHandler(e, event, payload, e.ls[event][k], behs, depth),
                                 event, payload, i + 1, behs, depth)

\* handlers.forEach from position i on; an exception that leaves the body ends it
forEach(e, event, payload, i, behs, depth) ==
    IF e.threw \/ i > Len(e.ls[event])
    THEN e
    ELSE IF e.ls[event][i] = Deleted
    THEN forEach(e, event, payload, i + 1, behs, depth)
    ELSE forEach(tryHandler(e, event, payload, e.ls[event][i], behs, depth),
                 event, payload, i + 1, behs, depth)

\* emit(event, payload), possibly from inside a handler
emitReentrant(e, event, payload, behs, depth) ==
    forEach(Log(e, Emission(event, payload, depth)), event, payload, 1, behs, depth)

\* new PollingEventEmitter(); the fields of the sessions are not there
InitEmitter ==
    /\ options = Null
    /\ listeners = [e \in Events |-> <<>>]
    /\ calls = <<>>
    /\ currentPrompt = BasePrompt
    /\ serverPrompts = {}
    /\ pollingInterval = "null"
    /\ pollIntervalMs = Undefined
    /\ backoffMultiplier = One
    /\ consecutiveErrors = 0
    /\ errorHandler = FALSE
    /\ lastError = NoError
    /\ onChangeCallback = FALSE
    /\ pendingTimers = 0
    /\ timerDelay = RatInt(0)
    /\ inFlight = 0
    /\ stopCalled = FALSE
    /\ onlyRateLimits = TRUE
    /\ priorStatus = Null
    /\ thrown = Null
    /\ args = Null
    /\ eventSource = "null"
    /\ orphans = <<>>
    /\ isConnected = FALSE

FrameEmitter == UNCHANGED <<currentPrompt, serverPrompts, pollVars, lastError, onChangeCallback,
                            pendingTimers, timerDelay, stopCalled, priorStatus, thrown, args,
                            sseVars, options>>

\* the application calls on(event, handler)
EmitterOn ==
    /\ \E e \in Events, h \in EmitterHandlers :
          /\ listeners' = on(listeners, e, Plain(h))
          /\ calls' = <<Call("on", e, Plain(h), "return")>>
    /\ Registrations(listeners') <= MaxListeners
    /\ FrameEmitter

\* the application calls once(event, handler)
EmitterOnce ==
    /\ \E e \in Events, h \in EmitterHandlers :
          /\ listeners' = on(listeners, e, Wrapper(h, FreshId(listeners)))
          /\ calls' = <<Call("once", e, Wrapper(h, FreshId(listeners)), "return")>>
    /\ Registrations(listeners') <= MaxListeners
    /\ FrameEmitter

\* the application calls off(event, handler) or off(event)
EmitterOff ==
    /\ \E e \in Events :
          \/ \E h \in EmitterHandlers :
                /\ listeners' = off(listeners, e, Plain(h))
                /\ calls' = <<Call("off", e, Plain(h),
                                   IF \E i \in DOMAIN listeners[e] : listeners[e][i] = Plain(h)
                                   THEN "deleted"
                                   ELSE "absent")>>
          \/ /\ listeners' = offAll(listeners, e)
             /\ calls' = <<Call("off", e, Null, "return")>>
    /\ FrameEmitter

\* the application calls emit(event, payload); a function that is not registered for the
\* event is not invoked: its behaviour is immaterial
EmitterEmit ==
    /\ \E e \in Events, payload \in Payloads, behs \in [EmitterHandlers -> EmitterBehaviours] :
          /\ \A h \in EmitterHandlers :
                 (\A i \in 1..Len(listeners[e]) : listeners[e][i].fn # h) => behs[h] = "return"
          /\ \E after \in {emitReentrant([ls |-> listeners, calls |-> <<>>, threw |-> FALSE],
                                          e, payload, behs, 0)} :
                /\ listeners' = Compact(after.ls)
                /\ calls' = IF after.threw
                            THEN Append(after.calls, Call("emit", e, payload, "throw"))
                            ELSE after.calls
    /\ Registrations(listeners') <= MaxListeners
    /\ FrameEmitter

NextEmitter ==
    \/ EmitterOn
    \/ EmitterOnce
    \/ EmitterOff
    \/ EmitterEmit

SpecEmitter == InitEmitter /\ [][NextEmitter]_vars

----------------------------------------------------------------------------
(* Vocabulary of the properties *)

\* the five fields a change is detected on
ComparedFields == {"version", "prompt", "temperature", "tag", "updatedAt"}

\* the field of a prompt record each key of a diff stands for
KeyField == [version |-> "version", content |-> "prompt", temperature |-> "temperature",
             tag |-> "tag", updatedAt |-> "updatedAt"]

\* this step is the rest of a timer callback, run after its fetch settled
Settles == inFlight' < inFlight

\* ... and the poll cycle it ends failed / succeeded
CycleFails == Settles /\ consecutiveErrors' = consecutiveErrors + 1
CycleSucceeds == Settles /\ consecutiveErrors' = 0

\* the record the fetch of this step resolved with
Fetched == calls'[1].arg

\* the positions of a log of calls at which `event` is emitted
Emits(log, event) == {i \in DOMAIN log : log[i].op = "emit" /\ log[i].event = event}

\* the positions of a log of calls at which user code is notified of an event
Notifies(log) ==
    {i \in DOMAIN log : log[i].op \in {"emit", "listener", "onChangeCallback", "errorHandler"}}

\* a fetch is in flight whose timer handle stopPolling() has dropped
StoppedInFlight == inFlight > 0 /\ pollingInterval = "null" /\ stopCalled

RatPow2(n) == RatInt(2 ^ n)

----------------------------------------------------------------------------
(* Properties of the poll session *)

\* C1: once stopPolling() has been called, no fetch is started any more and
\* isPolling is false in every later state.
C1_StopIsFinal ==
    [][stopCalled => (~isPolling(Self') /\ inFlight' <= inFlight)]_vars

\* C2: at most one fetch is in flight and at most one poll timer is armed, and no
\* timer is armed while a fetch is in flight.
C2_OneOutstanding ==
    /\ inFlight <= 1
    /\ pendingTimers <= 1
    /\ ~(inFlight > 0 /\ pendingTimers > 0)

\* C2 witness: a cycle has failed and the timer of the next cycle is armed.
C2_Witness ==
    /\ consecutiveErrors > 0
    /\ pendingTimers = 1
    /\ inFlight = 0
    /\ Len(calls) > 0

\* C3: a fetch that was in flight when stopPolling() was called changes nothing
\* when it settles: the held record stays and nobody is notified.
C3_StoppedFetchDiscarded ==
    [][(StoppedInFlight /\ Settles) =>
          (currentPrompt' = currentPrompt /\ Notifies(calls') = {})]_vars

\* C4: a failed poll cycle of a session that was not stopped arms the next timer,
\* also when the error handler or a listener throws; and a session that is never
\* stopped and whose fetches all settle starts a fetch again and again.
C4_FailuresAreNotFatal ==
    /\ [][(CycleFails /\ ~stopCalled') =>
             (pollingInterval' = "pending" /\ pendingTimers' = 1)]_vars
    /\ ([]~stopCalled /\ []<>(inFlight = 0)) => []<><<TimerFires>>_vars

\* C4 witness: the error handler threw in a failed cycle, and the next timer is armed.
C4_Witness ==
    /\ \E i \in DOMAIN calls : calls[i].op = "errorHandler" /\ calls[i].outcome = "throw"
    /\ \E i \in DOMAIN calls : calls[i].op = "listener" /\ calls[i].outcome = "throw"
    /\ ~stopCalled
    /\ pendingTimers = 1

\* C5: a successful poll emits `change` exactly once when the fetched record differs
\* from the held one in one of the five compared fields, and not at all otherwise
\* (so not for a difference in id or model only).
C5_ChangeIffCompared ==
    [][CycleSucceeds =>
          (Cardinality(Emits(calls', "change")) =
              IF \E f \in ComparedFields : currentPrompt[f] # Fetched[f] THEN 1 ELSE 0)]_vars

\* C5 witness: a change was emitted for a record that differs in the tag only.
C5_Witness ==
    /\ Cardinality(Emits(calls, "change")) = 1
    /\ \E i \in Emits(calls, "change") :
          {f \in PromptFields : calls[i].arg.previousPrompt[f] # calls[i].arg.prompt[f]} = {"tag"}

\* C6: after a successful poll the held record is the fetched one, whether or not a
\* change was emitted; no other step changes the held record.
C6_HeldIsLastFetched ==
    [][/\ CycleSucceeds => (currentPrompt' = Fetched /\ getCurrent(Self') = Fetched)
       /\ ~CycleSucceeds => currentPrompt' = currentPrompt]_vars

\* C6 witness: a poll succeeded without a change event and the fetched record,
\* which has another id than the first one, is held.
C6_Witness ==
    /\ Len(calls) = 1
    /\ calls[1].op = "fetchPrompt"
    /\ calls[1].outcome = "resolved"
    /\ currentPrompt = calls[1].arg
    /\ currentPrompt["id"] # BasePrompt["id"]

\* C7: the diff of a change event has an entry for exactly the compared fields that
\* differ, with the previous value as `from` and the new one as `to`; previousPrompt
\* is the record held before the fetch and prompt the fetched one.
C7_DiffIsExact ==
    [][\A i \in Emits(calls', "change") :
          LET ev == calls'[i].arg IN
          /\ ev.previousPrompt = currentPrompt
          /\ ev.prompt = Fetched
          /\ DOMAIN ev.changes =
                 {k \in DOMAIN KeyField : currentPrompt[KeyField[k]] # Fetched[KeyField[k]]}
          /\ \A k \in DOMAIN ev.changes :
                 /\ ev.changes[k].from = currentPrompt[KeyField[k]]
                 /\ ev.changes[k].to = Fetched[KeyField[k]]]_vars

\* C7 witness: a change event whose diff has two entries, content and version.
C7_Witness ==
    \E i \in Emits(calls, "change") : DOMAIN calls[i].arg.changes = {"content", "version"}

\* C8: after N rate_limit errors in a row from multiplier 1, the multiplier is
\* min(2^N, 16).
C8_RateLimitDoubling ==
    onlyRateLimits =>
        backoffMultiplier = MathMin(RatPow2(consecutiveErrors), RatInt(16))

\* C8 witness: five rate_limit errors in a row, the multiplier is at its cap.
C8_Witness ==
    /\ onlyRateLimits
    /\ consecutiveErrors = 5
    /\ backoffMultiplier = RatInt(16)

\* C9: an error of another category than rate_limit leaves the multiplier unchanged
\* while it is the first or second error in a row, and from the third on multiplies
\* it by 1.5, capped at 4.
C9_ModestBackoff ==
    [][(CycleFails /\ lastError'.type # "rate_limit") =>
          backoffMultiplier' =
              IF consecutiveErrors' < 3
              THEN backoffMultiplier
              ELSE MathMin(RatMul(backoffMultiplier, <<3, 2>>), RatInt(4))]_vars

\* C9 witness: the fourth error in a row, not a rate limit, took the multiplier from 1.5 to 2.25.
C9_Witness ==
    /\ consecutiveErrors = 4
    /\ lastError.type = "network"
    /\ lastError.backoffMultiplier = <<3, 2>>
    /\ backoffMultiplier = <<9, 4>>

\* C10 as stated: a successful poll resets the multiplier to 1 and the error count
\* to 0, and the next poll is scheduled with the base interval.
C10_ResetToBaseInterval ==
    [][CycleSucceeds =>
          /\ backoffMultiplier' = RatInt(1)
          /\ consecutiveErrors' = 0
          /\ pendingTimers' = 1
          /\ timerDelay' = RatInt(pollIntervalMs)]_vars

\* C10 amended: a successful poll resets the multiplier to 1 and the error count to
\* 0, and the next poll is scheduled with the base interval or, when the base
\* interval is longer than 300000 ms, with 300000 ms.
C10_ResetToCappedInterval ==
    [][CycleSucceeds =>
          /\ backoffMultiplier' = RatInt(1)
          /\ consecutiveErrors' = 0
          /\ pendingTimers' = 1
          /\ timerDelay' = IF pollIntervalMs <= 300000
                           THEN RatInt(pollIntervalMs)
                           ELSE RatInt(300000)]_vars

\* C10 witness: a poll has just succeeded after four errors that had raised the
\* multiplier to 8, and the next poll is scheduled with the base interval.
C10_Witness ==
    /\ Len(calls) > 0
    /\ calls[1].op = "fetchPrompt"
    /\ calls[1].outcome = "resolved"
    /\ priorStatus # Null
    /\ priorStatus.consecutiveErrors = 4
    /\ priorStatus.backoffMultiplier = RatInt(8)
    /\ consecutiveErrors = 0
    /\ backoffMultiplier = RatInt(1)
    /\ timerDelay = RatInt(pollIntervalMs)
    /\ pendingTimers = 1

\* C11: in every state the multiplier is at least 1 and at most 16 and the count of
\* consecutive errors is not negative.
C11_MultiplierInRange ==
    /\ RatLeq(RatInt(1), backoffMultiplier)
    /\ RatLeq(backoffMultiplier, RatInt(16))
    /\ consecutiveErrors >= 0

\* C11 witness: a streak of errors of more than one category has taken the multiplier
\* to 16.
C11_Witness ==
    /\ backoffMultiplier = RatInt(16)
    /\ ~onlyRateLimits
    /\ consecutiveErrors = 5

\* C12: a poll timer is armed with min(base interval * multiplier, 300000) ms, the
\* multiplier being the one the cycle that armed it left behind; no delay is longer
\* than 300000 ms.
C12_DelayIsCappedProduct ==
    pendingTimers > 0 =>
        /\ timerDelay = MathMin(RatMul(RatInt(pollIntervalMs), backoffMultiplier), RatInt(300000))
        /\ RatLeq(timerDelay, RatInt(300000))

\* C12 witness: after a rate limit the timer of a session with base interval 600000
\* is armed with 300000, not with 1200000.
C12_Witness ==
    /\ pendingTimers = 1
    /\ pollIntervalMs = 600000
    /\ backoffMultiplier = RatInt(2)
    /\ lastError.type = "rate_limit"
    /\ timerDelay = RatInt(300000)

\* the HTTP status the fetch of this step was answered with (Undefined: no response)
Status == calls'[1].event

\* C13: a failed fetch is classified by its cause: 429 gives rate_limit with status
\* code 429, another status that is not 2xx, 401 excepted, gives api with that
\* status code, no response at all gives network.
C13_ClassifiedByCause ==
    [][CycleFails =>
          /\ Status = "429" => (lastError'.type = "rate_limit" /\ lastError'.statusCode = "429")
          /\ Status \in {"404", "500"} => (lastError'.type = "api" /\ lastError'.statusCode = Status)
          /\ Status = Undefined => lastError'.type = "network"]_vars

\* C13 witness: a 404 was classified as api with status code 404.
C13_Witness ==
    /\ Len(calls) > 0
    /\ calls[1].op = "fetchPrompt"
    /\ calls[1].event = "404"
    /\ lastError.type = "api"
    /\ lastError.statusCode = "404"
    /\ \E i \in Emits(calls, "error") : calls[i].arg.type = "api"

\* C14: a 401 response produces an error event of type authentication, and leaves
\* the multiplier unchanged while it is the first or second error in a row.
C14_UnauthorizedIsAuthentication ==
    [][(CycleFails /\ Status = "401") =>
          /\ lastError'.type = "authentication"
          /\ \A i \in Emits(calls', "error") : calls'[i].arg.type = "authentication"
          /\ consecutiveErrors' < 3 => backoffMultiplier' = backoffMultiplier]_vars

\* C15: construction with enforcement on and an interval below 5000 throws a
\* PromptrunConfigurationError for parameter "poll" with the requested interval as
\* providedValue and 5000 as expectedValue, and only then; nothing is armed or fetched
\* for an object whose constructor threw.
C15_AggressiveIntervalRejected ==
    /\ (args.enforceMinimumInterval /\ args.pollIntervalMs < 5000) <=> thrown # Null
    /\ thrown # Null =>
          /\ thrown = [class |-> "PromptrunConfigurationError", parameter |-> "poll",
                       providedValue |-> args.pollIntervalMs, expectedValue |-> 5000]
          /\ pendingTimers = 0
          /\ inFlight = 0
          /\ ~isPolling(Self)

\* C15 witness: the constructor was called with 1000 and enforcement on, and threw.
C15_Witness ==
    /\ args = [pollIntervalMs |-> 1000, enforceMinimumInterval |-> TRUE]
    /\ thrown # Null
    /\ thrown.providedValue = 1000

\* C16 as stated: with enforcement off every interval is accepted as it is: the
\* constructor returns, the session polls, and while no error has occurred
\* currentInterval is the requested interval and the poll timer is armed with it.
C16_AnyIntervalAsIs ==
    ~args.enforceMinimumInterval =>
        /\ thrown = Null
        /\ ~stopCalled => isPolling(Self)
        /\ (consecutiveErrors = 0 /\ lastError = NoError) =>
              /\ getStatus(Self).currentInterval = RatInt(args.pollIntervalMs)
              /\ pendingTimers > 0 => timerDelay = RatInt(args.pollIntervalMs)

\* C16 amended: ... and the poll timer is armed with the requested interval or,
\* when that is longer than 300000 ms, with 300000 ms.
C16_AnyIntervalAsIsCapped ==
    ~args.enforceMinimumInterval =>
        /\ thrown = Null
        /\ ~stopCalled => isPolling(Self)
        /\ (consecutiveErrors = 0 /\ lastError = NoError) =>
              /\ getStatus(Self).currentInterval = RatInt(args.pollIntervalMs)
              /\ pendingTimers > 0 =>
                    timerDelay = IF args.pollIntervalMs <= 300000
                                 THEN RatInt(args.pollIntervalMs)
                                 ELSE RatInt(300000)

\* C16 witness: a session created with 1000 and enforcement off waits for its first
\* poll, armed with 1000.
C16_Witness ==
    /\ args = [pollIntervalMs |-> 1000, enforceMinimumInterval |-> FALSE]
    /\ thrown = Null
    /\ pollingInterval = "pending"
    /\ timerDelay = RatInt(1000)
    /\ getStatus(Self).currentInterval = RatInt(1000)
    /\ lastError = NoError

\* C17: getStatus().currentInterval is the delay the next poll is, or would be,
\* scheduled with: min(base interval * multiplier, 300000).
C17_CurrentIntervalIsEffective ==
    Constructed =>
        /\ getStatus(Self).currentInterval = actualInterval(Self)
        /\ getStatus(Self).currentInterval =
               MathMin(RatMul(RatInt(pollIntervalMs), backoffMultiplier), RatInt(300000))

----------------------------------------------------------------------------
(* Properties of the push session *)

\* the calls of the EventSource constructor in a log of calls
Opens(log) == {i \in DOMAIN log : log[i].op = "new EventSource"}

\* the session has no connection that could still deliver anything
Down == eventSource \in {"null", "CLOSED"}

\* C18: once stopPolling() has been called on a push session, no connection is
\* opened any more, also not by a reconnect timer that was pending, and isPolling
\* stays false.
C18_StopIsFinalSSE ==
    [][stopCalled => (Opens(calls') = {} /\ ~isConnected')]_vars

\* C19: a push session has at most one connection that is not closed, and a step
\* opens a connection only when the session's current connection is closed (or it
\* has none).
C19_OneConnection ==
    /\ [](Cardinality(Targets(SelfSSE)) <= 1)
    /\ [][Opens(calls') # {} => (Down /\ Cardinality(Opens(calls')) = 1)]_vars

\* C19 witness: of two pending reconnect timers one has opened a new connection, the
\* other is still pending.
C19_Witness ==
    /\ Opens(calls) # {}
    /\ eventSource = "CONNECTING"
    /\ pendingTimers >= 1

\* C20: when a session that is not stopped has lost its connection or could not open
\* one, the EventSource constructor is called again later, unless the session is
\* stopped first.
C20_ReconnectFollows ==
    (~stopCalled /\ Down /\ Opens(calls) = {}) ~> (stopCalled \/ Opens(calls) # {})

\* this step is an onmessage callback whose message could not be parsed / could
ParseFails == calls' # <<>> /\ calls'[1].op = "onmessage" /\ calls'[1].arg = Null
ParseSucceeds == calls' # <<>> /\ calls'[1].op = "onmessage" /\ calls'[1].arg # Null

\* the positions of a log of calls at which user code calls stopPolling()
StopsFromHandler(log) == {i \in DOMAIN log : log[i].outcome = "stopPolling"}

----------------------------------------------------------------------------
(* Properties of both kinds of session *)

\* the change events emitted in a log of calls, in order
ChangeEventsOf(log) == SelectSeq(log, LAMBDA c : c.op = "emit" /\ c.event = "change")

\* what an established push session holding the same record does with the record
\* this poll fetched, were it the parsed data of a message
Pushed == onmessage([SelfSSE EXCEPT !.eventSource = "OPEN", !.isConnected = TRUE],
                    Fetched, [h \in HandlerIds |-> "return"], "return")

\* C22: a poll session and a push session that hold the same record and are given the
\* same candidate (as the body of a successful fetch, as the parsed data of a message)
\* emit the same change events (same previous, new and diff) and hold the same record
\* afterwards; so, from the same initial record and over the same sequence of
\* candidates, they emit the same sequence of change events and end with the same
\* held record.
C22_PollPushEquivalent ==
    [][(Settles /\ Status = "200") =>
          LET pushed == Pushed
          IN /\ currentPrompt' = pushed.currentPrompt
             /\ ChangeEventsOf(calls') = ChangeEventsOf(pushed.calls)]_vars

\* C22 witness: the second change in a row: a poll has emitted a change event whose
\* previous record is not the initial one.
C22_Witness ==
    \E i \in Emits(calls, "change") :
        /\ calls[i].arg.previousPrompt # BasePrompt
        /\ calls[i].arg.prompt # BasePrompt
        /\ currentPrompt = calls[i].arg.prompt

----------------------------------------------------------------------------
(* Properties of the emitter *)

\* this step is a call of emit by the application; what it emits
EmitStep == calls' # <<>> /\ calls'[1].op = "emit"
Emitted == calls'[1]

\* the invocations of callables by the emit at nesting depth d, in order
Invocations(log, d) == SelectSeq(log, LAMBDA c : c.op = "listener" /\ c.depth = d)

\* ... and the callables invoked
Invoked(log, d) == [i \in 1..Len(Invocations(log, d)) |-> Invocations(log, d)[i].handler]

\* the positions of a log at which a handler function throws / an error is logged
Throws(log) == {i \in DOMAIN log : log[i].op = "listener" /\ log[i].outcome = "throw"}
Logged(log) == {i \in DOMAIN log : log[i].op = "console.error"}

\* no handler function invoked in the step uses the emitter
Plainly(log) ==
    \A i \in DOMAIN log : log[i].op = "listener" => log[i].outcome \in {"return", "throw"}

\* the exception of a handler function has left emit
Escaped(log) == \E i \in DOMAIN log : log[i].op = "emit" /\ log[i].outcome = "throw"

\* C23: what a handler throws during emit is logged, once per throwing handler, and
\* never leaves emit; and when handlers only return or throw, every callable
\* registered for the event is still invoked, in order, with the payload of the emit,
\* whichever of those before it threw.
C23_ThrowingHandlerIsContained ==
    [][EmitStep =>
          /\ ~Escaped(calls')
          /\ Cardinality(Logged(calls')) = Cardinality(Throws(calls'))
          /\ \A i \in Throws(calls') :
                 /\ i + 1 \in Logged(calls')
                 /\ calls'[i + 1].arg = calls'[i].handler
          /\ Plainly(calls') =>
                 /\ Invoked(calls', 0) = listeners[Emitted.event]
                 /\ \A i \in DOMAIN calls' :
                        calls'[i].op = "listener" => calls'[i].arg = Emitted.arg]_vars

\* C23 witness: the first of two handlers threw, the error was logged, and the second
\* handler was invoked with the same payload.
C23_Witness ==
    /\ Len(calls) = 4
    /\ calls[1].op = "emit"
    /\ calls[2].op = "listener" /\ calls[2].outcome = "throw"
    /\ calls[3].op = "console.error"
    /\ calls[4].op = "listener" /\ calls[4].outcome = "return"
    /\ calls[4].handler # calls[2].handler
    /\ calls[4].arg = calls[1].arg

\* the positions of a log at which an onceHandler is invoked
OnceInvocations(log) == {i \in DOMAIN log : log[i].op = "listener" /\ log[i].handler.id > 0}

\* C24: a handler registered with once is invoked by the first emit of its event
\* after the registration and by no later emit, whatever the handler does: an
\* onceHandler is invoked at most once by a call of emit (nested emits included), is
\* not invoked by two calls of emit in a row, and is invoked by an emit whose handlers
\* only return or throw.
C24_OnceIsOnce ==
    [][EmitStep =>
          /\ \A i, j \in OnceInvocations(calls') :
                 calls'[i].handler = calls'[j].handler => i = j
          /\ \A i \in OnceInvocations(calls'), j \in OnceInvocations(calls) :
                 calls'[i].handler # calls[j].handler
          /\ Plainly(calls') =>
                 \A k \in DOMAIN listeners[Emitted.event] :
                     \E i \in DOMAIN calls' :
                         /\ calls'[i].op = "listener"
                         /\ calls'[i].handler = listeners[Emitted.event][k]]_vars

\* C25: a call of emit invokes exactly the callables that are registered for the event
\* when it starts, each once and in their order, whatever the handlers do to the
\* registry while it runs.
C25_EmitIteratesSnapshot ==
    [][EmitStep => Invoked(calls', 0) = listeners[Emitted.event]]_vars

\* the event emit was not called for
OtherEvent(event) == IF event = "change" THEN "error" ELSE "change"

\* C26: emit(event, payload) invokes, before it returns, the callables registered for
\* the event and nothing else, each once and in the order of registration, when the
\* handlers leave the registry alone; every invocation it makes is for that event and
\* with that payload, and the registry of the other event stays as it is; with no
\* handler for the event it does nothing.
C26_EmitInvokesAllInOrder ==
    [][EmitStep =>
          /\ Plainly(calls') =>
                 /\ Invoked(calls', 0) = listeners[Emitted.event]
                 /\ Len(calls') = 1 + Len(listeners[Emitted.event]) + Cardinality(Logged(calls'))
          /\ \A i \in DOMAIN calls' :
                 calls'[i].op = "listener" =>
                     (calls'[i].event = Emitted.event /\ calls'[i].arg = Emitted.arg)
          /\ listeners'[OtherEvent(Emitted.event)] = listeners[OtherEvent(Emitted.event)]
          /\ listeners[Emitted.event] = <<>> =>
                 (calls' = <<Emitted>> /\ listeners' = listeners)]_vars

\* C26 witness: two handlers, registered in the order h2, h1, have been invoked in
\* that order by one emit.
C26_Witness ==
    /\ Len(calls) = 3
    /\ calls[1].op = "emit"
    /\ calls[2].op = "listener" /\ calls[2].handler = Plain("h2") /\ calls[2].outcome = "return"
    /\ calls[3].op = "listener" /\ calls[3].handler = Plain("h1") /\ calls[3].outcome = "return"
    /\ listeners[calls[1].event] = <<Plain("h2"), Plain("h1")>>

\* this step is a call of off by the application
OffStep == calls' # <<>> /\ calls'[1].op = "off"

\* C27: off(event, handler) removes that handler from the event's callables and leaves
\* the others, in their order, and the callables of the other event; off(event)
\* removes all callables of the event and none of the other event; off for a handler
\* that is not registered for the event, or an event without callables, changes
\* nothing.
C27_OffRemovesExactly ==
    [][OffStep =>
          LET e == calls'[1].event
              h == calls'[1].arg
          IN /\ listeners'[OtherEvent(e)] = listeners[OtherEvent(e)]
             /\ h = Null => listeners'[e] = <<>>
             /\ h # Null =>
                    /\ listeners'[e] = SelectSeq(listeners[e], LAMBDA x : x # h)
                    /\ Len(listeners'[e]) >= Len(listeners[e]) - 1
                    /\ (\A k \in DOMAIN listeners[e] : listeners[e][k] # h)
                           => listeners' = listeners]_vars

\* C27 witness: off(event, handler) has removed a registered handler, and another
\* callable of the event is still registered.
C27_Witness ==
    /\ calls # <<>>
    /\ calls[1].op = "off"
    /\ calls[1].outcome = "deleted"
    /\ Len(listeners[calls[1].event]) = 1
    /\ listeners[calls[1].event][1] # calls[1].arg

----------------------------------------------------------------------------
(* Properties of the failure reports *)

\* the positions of a log of calls at which a diagnostic is written to the console
Diagnostics(log) == {i \in DOMAIN log : log[i].op \in {"console.warn", "console.error"}}

\* C28: a step in which a session reports a failure (it emits an error event) while
\* neither an error handler nor a listener of the error event is registered writes a
\* diagnostic to the console.
C28_FailuresAreNeverSilent ==
    [][(Emits(calls', "error") # {} /\ ~errorHandler /\ listeners["error"] = <<>>)
           => Diagnostics(calls') # {}]_vars

----------------------------------------------------------------------------
(* Further properties of both kinds of session *)

\* the change events of a log are one event whose diff has an updatedAt entry only
OneUpdatedAtChange(log) ==
    /\ Len(ChangeEventsOf(log)) = 1
    /\ DOMAIN ChangeEventsOf(log)[1].arg.changes = {"updatedAt"}
    /\ ChangeEventsOf(log)[1].arg.changes["updatedAt"].from
           # ChangeEventsOf(log)[1].arg.changes["updatedAt"].to

\* C29: a record that differs from the held one in updatedAt only is a change: the
\* poll that fetched it emits exactly one change event, whose diff has an updatedAt
\* entry and no other, and so does a push session that holds the same record and
\* receives it as a message.
C29_UpdatedAtAloneIsAChange ==
    [][(CycleSucceeds /\ {f \in PromptFields : currentPrompt[f] # Fetched[f]} = {"updatedAt"}) =>
          /\ OneUpdatedAtChange(calls')
          /\ OneUpdatedAtChange(Pushed.calls)]_vars

\* C29 witness: a poll has fetched a record that differs from the one held before in
\* updatedAt only, and has emitted a change event for it.
C29_Witness ==
    /\ Cardinality(Emits(calls, "change")) = 1
    /\ \E i \in Emits(calls, "change") :
          /\ {f \in PromptFields : calls[i].arg.previousPrompt[f] # calls[i].arg.prompt[f]}
                 = {"updatedAt"}
          /\ currentPrompt = calls[i].arg.prompt

\* the session after a call of stopPolling(), and after a second call
Stopped == IF IsPush THEN CallStopPolling(SelfSSE) ELSE CallStopPolling(Self)
StoppedTwice == CallStopPolling(Stopped)

\* the session is as a call of stopPolling() leaves it
JustStopped ==
    stopCalled /\ pollingInterval = "null" /\ eventSource = "null" /\ ~isConnected

\* C30: stopPolling() is idempotent for both kinds of session: called in the state a
\* call of it produces, it changes nothing, neither the held record, isPolling, the
\* counters and the last error of the status, the timers and connections, nor the
\* registered listeners and handlers.
C30_StopIsIdempotent ==
    /\ [](StoppedTwice = Stopped)
    /\ [][((StopPolling \/ StopPollingSSE) /\ JustStopped) =>
             UNCHANGED <<currentPrompt, pollingInterval, isConnected, eventSource, orphans,
                         consecutiveErrors, backoffMultiplier, lastError, pendingTimers,
                         inFlight, listeners, errorHandler, onChangeCallback, stopCalled>>]_vars

\* C30 witness: a poll session that has adopted a new record and has then failed has
\* been stopped, with a listener registered.
C30_Witness ==
    /\ ~IsPush
    /\ JustStopped
    /\ calls = <<>>
    /\ consecutiveErrors > 0
    /\ currentPrompt # BasePrompt
    /\ listeners["change"] # <<>>

----------------------------------------------------------------------------
(* Properties of the status the sessions report *)

\* C31: a push session reports isPolling = true from its construction on, before any
\* onopen callback has run, until stopPolling() is called.
C31_PushPollingUntilStopped == stopCalled \/ getStatusSSE(SelfSSE).isPolling

\* the status the object returned by prompt() reports
ResultStatus ==
    CASE Strategy(options) = "poll" -> getStatus(Self)
      [] Strategy(options) = "sse"  -> getStatusSSE(SelfSSE)
      [] OTHER                      -> getStatusOneShot

\* prompt() has started nothing: no timer is armed and no connection was opened
NothingStarted ==
    /\ args = Null
    /\ pendingTimers = 0
    /\ eventSource = "null"
    /\ Opens(calls) = {}
    /\ ~ResultStatus.isPolling
    /\ ResultStatus.currentInterval = RatInt(0)

\* prompt() has started a poll session with base interval ms
PollSessionStarted(ms) ==
    /\ thrown = Null
    /\ pollingInterval = "pending"
    /\ pendingTimers = 1
    /\ pollIntervalMs = ms
    /\ eventSource = "null"
    /\ ResultStatus.isPolling
    /\ ResultStatus.currentInterval = RatInt(ms)

\* prompt() has started a push session
PushSessionStarted ==
    /\ Opens(calls) # {}
    /\ pollingInterval = "null"
    /\ pendingTimers = 0

Rejected(o) == o.enforceMinimumInterval /\ Poll(o).ms < minPollIntervalMs

----------------------------------------------------------------------------
(* Properties of the error streak of a poll session *)

\* the positions of a log at which an error is delivered to an `error` listener or to
\* the registered error handler
ErrorDeliveries(log) ==
    {i \in DOMAIN log : log[i].op \in {"listener", "errorHandler"} /\ log[i].event = "error"}

\* C33: whenever an `error` listener or the registered error handler is invoked with
\* error e, e.consecutiveErrors and e.backoffMultiplier equal the consecutiveErrors and
\* backoffMultiplier getStatus() reports at that moment.
C33_ErrorCarriesCurrentCounters ==
    [][CycleFails =>
          \A i \in ErrorDeliveries(calls') :
              /\ calls'[i].arg.consecutiveErrors = calls'[i].status.consecutiveErrors
              /\ calls'[i].arg.backoffMultiplier = calls'[i].status.backoffMultiplier]_vars


\* the positions of a log at which a change is delivered to a `change` listener / to
\* the onChange callback
ChangeListenerCalls(log) == {i \in DOMAIN log : log[i].op = "listener" /\ log[i].event = "change"}
ChangeCallbackCalls(log) == {i \in DOMAIN log : log[i].op = "onChangeCallback"}

\* C34: in a successful poll cycle that detects a change, the held record is replaced
\* first, then the `change` listeners are invoked, then the onChange callback, then the
\* backoff is reset, then the next timer is armed: every listener and the callback see
\* the fetched record held and the counters not yet reset, every listener runs after
\* the emit and before the callback, and whatever they do or throw the cycle ends with
\* the counters reset and a timer armed with the base delay.
C34_SuccessfulCycleInOrder ==
    [][(CycleSucceeds /\ Emits(calls', "change") # {}) =>
          /\ \A i \in ChangeListenerCalls(calls') \cup ChangeCallbackCalls(calls') :
                /\ calls'[i].current = Fetched
                /\ calls'[i].arg.prompt = Fetched
                /\ calls'[i].status = priorStatus'
          /\ \A i \in ChangeListenerCalls(calls') :
                /\ \A e \in Emits(calls', "change") : e < i
                /\ \A c \in ChangeCallbackCalls(calls') : i < c
          /\ onChangeCallback => ChangeCallbackCalls(calls') # {}
          /\ Len(listeners["change"]) = Cardinality(ChangeListenerCalls(calls'))
          /\ currentPrompt' = Fetched
          /\ backoffMultiplier' = One
          /\ consecutiveErrors' = 0
          /\ lastError' = NoError
          /\ pollingInterval' = "pending"
          /\ pendingTimers' >= 1
          /\ timerDelay' = MathMin(RatInt(pollIntervalMs), RatInt(maxBackoffMs))]_vars

\* C34 witness: a cycle that ended an error streak has detected a change, a `change`
\* listener has thrown and the onChange callback has thrown, and the counters are reset
\* and the next timer is armed.
C34_Witness ==
    /\ priorStatus # Null
    /\ priorStatus.consecutiveErrors > 0
    /\ \E i \in ChangeListenerCalls(calls) : calls[i].outcome = "throw"
    /\ \E i \in ChangeCallbackCalls(calls) : calls[i].outcome = "throw"
    /\ consecutiveErrors = 0
    /\ pollingInterval = "pending"


\* C35: within one error streak, whatever the categories of the errors, the backoff
\* multiplier never decreases from one failed cycle to the next.
C35_MultiplierNeverDecreasesInStreak ==
    [][CycleFails => RatLeq(backoffMultiplier, backoffMultiplier')]_vars


----------------------------------------------------------------------------
(* Properties of the delays of a poll session *)

\* C36 as stated: the delay of an armed poll timer is never shorter than the base
\* interval the session was constructed with.
C36_DelayAtLeastBase ==
    (Constructed /\ pollingInterval = "pending") => RatLeq(RatInt(pollIntervalMs), timerDelay)

\* C36, amended: the delay of an armed poll timer is never shorter than the smaller of
\* the base interval and the cap of 300000 ms.
C36_DelayAtLeastCappedBase ==
    (Constructed /\ pollingInterval = "pending") =>
        RatLeq(MathMin(RatInt(pollIntervalMs), RatInt(maxBackoffMs)), timerDelay)

\* C36 witness: after a failed cycle the next poll is armed with a delay longer than
\* the base interval.
C36_Witness ==
    /\ Constructed
    /\ pollingInterval = "pending"
    /\ consecutiveErrors > 0
    /\ ~RatLeq(timerDelay, RatInt(pollIntervalMs))


\* what the transport did with the request of this step, as the log of calls records it
Outcome ==
    [kind |-> IF Status = Undefined THEN "rejected" ELSE "response",
     status |-> Status, body |-> Fetched]

\* the error the timer callback catches when the fetch of this step fails
Caught ==
    LET fetched == fetchPrompt(Outcome)
    IN IF fetched.ok THEN Thrown("TypeError", Undefined) ELSE fetched.error

\* C37: in every state of a poll session lastError is set exactly when
\* consecutiveErrors > 0, that is, exactly when the cycle completed last has failed;
\* and when set it is the error of the failed cycle completed last: a failed cycle
\* leaves as lastError the error it built from its own failure and delivered, a
\* successful cycle leaves none, and no other step changes it (before and after every
\* step of the session).
C37_LastErrorIffInStreak ==
    [][/\ (lastError # NoError) <=> (consecutiveErrors > 0)
       /\ (lastError' # NoError) <=> (consecutiveErrors' > 0)
       /\ IF ~Settles
          THEN lastError' = lastError /\ consecutiveErrors' = consecutiveErrors
          ELSE IF consecutiveErrors' = 0
          THEN lastError' = NoError
          ELSE /\ consecutiveErrors' = consecutiveErrors + 1
               /\ lastError'.consecutiveErrors = consecutiveErrors'
               /\ lastError'.backoffMultiplier = backoffMultiplier
               /\ lastError'.cause = Caught.class
               /\ Emits(calls', "error") # {}
               /\ \A i \in Emits(calls', "error") : calls'[i].arg = lastError']_vars

\* C37 witness: the second failed cycle of a streak has completed and lastError is its
\* error, a network error that follows a rate-limit error.
C37_Witness ==
    /\ Constructed
    /\ consecutiveErrors = 2
    /\ lastError # NoError
    /\ lastError.type = "network"
    /\ lastError.consecutiveErrors = 2
    /\ ~RatLeq(backoffMultiplier, One)


----------------------------------------------------------------------------
(* Properties of one-shot subscriptions and of the error handler *)

\* the step before this one was a call of off(event, handler) with a handler
AfterOffOf == Len(calls) = 1 /\ calls[1].op = "off" /\ calls[1].arg # Null

\* C38: after once(event, h) and then off(event, h), an emit of the event does not
\* invoke h: the emit that follows off(event, h) invokes no onceHandler of h for that
\* event.
C38_OffCancelsOnce ==
    [][(EmitStep /\ AfterOffOf /\ calls[1].event = Emitted.event) =>
          \A i \in OnceInvocations(calls') :
              calls'[i].event = Emitted.event => calls'[i].handler.fn # calls[1].arg.fn]_vars


\* the positions of a log at which an error is delivered to an `error` listener
ErrorListenerCalls(log) == {i \in DOMAIN log : log[i].op = "listener" /\ log[i].event = "error"}

\* C39: for both kinds of session, a call of removeErrorHandler() removes the handler
\* installed through onError() or at construction and no listener registered with
\* on("error", ...): a poll session keeps all its listeners, a push session on which
\* onError() has installed nothing keeps all its listeners; and every emit of an error
\* invokes every registered `error` listener.
C39_RemoveErrorHandlerKeepsListeners ==
    [][/\ (~IsPush /\ RemoveErrorHandler) => listeners' = listeners
       /\ (IsPush /\ RemoveErrorHandlerSSE /\ ~errorHandler) => listeners' = listeners
       /\ Emits(calls', "error") # {} =>
              Cardinality(ErrorListenerCalls(calls')) >= Len(listeners["error"])]_vars

====
